---- MODULE Spec2Model ----
(***************************************************************************)
(* BatchOptimizer.executeBatch (src/src/utils/batchOptimizer.ts): chunked, *)
(* semaphore-bounded, retried processing of a list of items.  One state    *)
(* transition per stretch of code that runs between two awaits.            *)
(* Further specifications over the same variables: RetryManager.withRetry  *)
(* (src/src/utils/retry.ts), MemoryCache (src/unnamed/part_009) and        *)
(* PerformanceOptimizer.optimizeOperation                                  *)
(* (src/src/utils/performanceOptimizer.ts).                                *)
(***************************************************************************)
EXTENDS Integers, Sequences, FiniteSets, TLC

\* ---- bounds of the model ----
MaxItems == 3
MaxBatchSize == 3
MaxConcurrency == 2
MaxRetryAttempts == 2
MemoryThreshold == 1
\* the attempt budget of one run: Len(items) * retryAttempts
MaxWork == 6
\* withRetry calls made on the one RetryManager
MaxCalls == 3
\* the largest maxRetries a caller passes
MaxRetries == 2

Min(a, b) == IF a < b THEN a ELSE b
Max(a, b) == IF a > b THEN a ELSE b

\* ---- values ----
UNDEFINED == 0
\* the i-th input item (distinct from its index and from every result)
ItemVal(i) == 10 + i
\* the defined value the processor resolves with for an item
ProcValue(item) == 100 + item
\* new Error('操作超时') of the timeout promise
TimeoutMessage == "OperationTimeout"
\* the fallback text '处理失败'
DefaultError == "ProcessingFailed"
\* error.message of what an attempt failed with
Message(kind) ==
  CASE kind = "retryable" -> "ETIMEDOUT"
    [] kind = "nonretryable" -> "ValidationError"
    [] kind = "timeout" -> TimeoutMessage
    [] OTHER -> ""
\* a || b on strings
OrElse(a, b) == IF a = "" THEN b ELSE a

\* what one processor call raced against the timeout can end with: it resolves
\* with a value or with undefined, rejects with an Error (of a retryable or a
\* non-retryable class) or with undefined/null, or the timer fires first
Outcomes == {"value", "undefined", "retryable", "nonretryable", "nullish", "timeout"}
Resolved == {"value", "undefined"}
\* process.memoryUsage() rounded to MB: a sample at the threshold or above it
HeapVals == {MemoryThreshold, MemoryThreshold + 1}

VARIABLES
  config,     \* BatchOptimizer.config
  monitor,    \* BatchOptimizer.memoryMonitor: initialMemory, peakMemory
  pc,         \* where executeBatch stands
  items,      \* the items argument
  i,          \* the loop variable of executeBatch
  batch,      \* the current slice, as positions in items
  results,    \* const results
  failures,   \* const failures
  tasks,      \* one async callback of batch.map per item
  sem,        \* the Semaphore of the current processBatchConcurrently
  orphans,    \* processor calls whose attempt timed out and that still run
  chunks,     \* history: every slice taken so far
  ret,        \* what executeBatch returned or threw
  stats,      \* RetryManager.stats of the module-level retryManager, which
              \* only RetryManager.withRetry writes; batchOptimizer.ts never
              \* calls it
  rm,         \* the withRetry call in progress on retryManager, and the
              \* history of the last call
  timer,      \* history of the suspensions of executeBatch since the previous
              \* chunk settled, and of forceGC
  adapt,      \* history: the last adaptiveOptimization call, its arguments
              \* and the configuration it found
  run,        \* which executeBatch invocation pc .. timer belong to, and
              \* history: the heap use when it was called
  other,      \* the locals of a second executeBatch invocation on the same
              \* BatchOptimizer, while the event loop runs the first
  mcache,     \* a MemoryCache: config, cache (the Map, in insertion order),
              \* stats, and the value Date.now() returns
  perf        \* a PerformanceOptimizer: config, activeOperations, and where
              \* each caller of optimizeOperation stands

vars == <<config, monitor, pc, items, i, batch, results, failures, tasks, sem,
          orphans, chunks, ret, stats, rm, timer, adapt, run, other, mcache, perf>>

\* ---- MemoryMonitor ----
updatePeak(m, current) ==
  IF current > m.peakMemory THEN [m EXCEPT !.peakMemory = current] ELSE m

isOverThreshold(current, threshold) == current > threshold

getStats(m, current) ==
  [before |-> m.initialMemory, after |-> current, peak |-> m.peakMemory]

\* ---- Semaphore ----
\* a semaphore that starts with one permit too many
NewSemaphoreExtra(n) == [permits |-> n + 1, waitQueue |-> <<>>, capacity |-> n]

\* capacity records the constructor's argument (history, not a field)
NewSemaphore(n) == [permits |-> n, waitQueue |-> <<>>, capacity |-> n]

\* acquire with the test off by one: a permit is granted when none is left
acquireOffByOne(s, k) ==
  IF s.permits >= 0
    THEN [s EXCEPT !.permits = @ - 1]
    ELSE [s EXCEPT !.waitQueue = Append(@, k)]

\* acquire() by caller k: the promise of k is resolved at once, or its resolve
\* function is queued
acquire(s, k) ==
  IF s.permits > 0
    THEN [s EXCEPT !.permits = @ - 1]
    ELSE [s EXCEPT !.waitQueue = Append(@, k)]

\* a release that counts the permit and leaves the waiters in the queue
releaseNoResume(s) == [s EXCEPT !.permits = @ + 1]

\* a release that takes the resolve function queued last (pop, not shift)
releaseNewest(s) ==
  IF Len(s.waitQueue) > 0
    THEN [s EXCEPT !.waitQueue = SubSeq(@, 1, Len(@) - 1)]
    ELSE [s EXCEPT !.permits = @ + 1]

release(s) ==
  IF Len(s.waitQueue) > 0
    THEN [s EXCEPT !.waitQueue = Tail(@)]
    ELSE [s EXCEPT !.permits = @ + 1]

\* the caller whose resolve function release took from the queue of s,
\* leaving s2
Shifted(s, s2) ==
  CHOOSE k \in {s.waitQueue[j] : j \in 1..Len(s.waitQueue)} :
    \A j \in 1..Len(s2.waitQueue) : s2.waitQueue[j] # k

\* ---- per-item callbacks ----
NoOut == [success |-> FALSE, data |-> UNDEFINED, item |-> 0, error |-> ""]

\* st: where the callback stands; attempt, lastError: the locals of
\* processWithRetry; out: the object the callback returned.  History: calls
\* (processor invocations), backoffs (retry delays begun), fails (attempts that
\* failed), allTransient (every attempt so far failed, with a retryable error
\* or a timeout), releases (release() calls of the callback's finally block),
\* overtook (the callback ended while that of an earlier item of its chunk had
\* not; recorded in traced runs only)
NewTask ==
  [st |-> "none", attempt |-> 0, calls |-> 0, backoffs |-> 0, fails |-> 0,
   lastError |-> "none", allTransient |-> TRUE, releases |-> 0, overtook |-> FALSE,
   out |-> NoOut]

\* a slice that stops one position early
SliceShort(from, size) ==
  [j \in 1..Max(0, Min(from + size - 1, Len(items)) - from) |-> from + j]

\* items.slice(from, from + size), as positions
Slice(from, size) ==
  [j \in 1..Max(0, Min(from + size, Len(items)) - from) |-> from + j]

\* batch.map(async item => { await semaphore.acquire(); ... }): every callback
\* runs up to its first await, in array order
RECURSIVE MapAcquire(_, _, _)
MapAcquire(b, s, t) ==
  IF b = <<>> THEN [sem |-> s, tasks |-> t]
  ELSE LET k == Head(b)
           s2 == acquire(s, k) IN
       MapAcquire(Tail(b), s2,
                  [t EXCEPT ![k].st = IF s2.waitQueue = s.waitQueue
                                        THEN "acquired" ELSE "waiting"])

\* the catch and return arms of the callback
SuccessOut(k, kind) ==
  [success |-> TRUE,
   data |-> IF kind = "value" THEN ProcValue(items[k]) ELSE UNDEFINED,
   item |-> items[k], error |-> ""]

FailureOut(k, kind) ==
  [success |-> FALSE, data |-> UNDEFINED, item |-> items[k],
   error |-> OrElse(Message(kind), DefaultError)]

\* error.message of an error that is undefined or null throws a TypeError
CatchThrows(kind) == kind \in {"none", "nullish"}

\* the callback ends (return or throw): the locals of processWithRetry are
\* gone, and the finally block releases, which resolves the promise of the
\* longest waiter if there is one
Finish(k, t) ==
  LET done == [t EXCEPT !.attempt = 0, !.lastError = "none", !.releases = @ + 1,
                        !.overtook = \E j \in 1..Len(batch) :
                                       /\ run.traced
                                       /\ batch[j] < k
                                       /\ tasks[batch[j]].st \notin {"fulfilled", "rejected"}]
      s2 == release(sem) IN
  /\ sem' = s2
  /\ tasks' = IF s2.waitQueue # sem.waitQueue
                THEN [tasks EXCEPT ![k] = done, ![Shifted(sem, s2)].st = "acquired"]
                ELSE [tasks EXCEPT ![k] = done]

\* a callback whose catch block throws skips the release
ThrowLastNoFinally(k, t) ==
  IF CatchThrows(t.lastError)
    THEN /\ tasks' = [tasks EXCEPT ![k] = [t EXCEPT !.st = "rejected", !.attempt = 0,
                                                    !.lastError = "none"]]
         /\ UNCHANGED sem
    ELSE Finish(k, [t EXCEPT !.st = "fulfilled", !.out = FailureOut(k, t.lastError)])

\* processWithRetry leaves its loop and throws lastError
ThrowLast(k, t) ==
  IF CatchThrows(t.lastError)
    THEN Finish(k, [t EXCEPT !.st = "rejected"])
    ELSE Finish(k, [t EXCEPT !.st = "fulfilled", !.out = FailureOut(k, t.lastError)])

\* the loop test of processWithRetry, then the body's call of the processor
LoopTest(k, t) ==
  IF t.attempt <= config.retryAttempts
    THEN /\ tasks' = [tasks EXCEPT ![k] = [t EXCEPT !.st = "running", !.calls = @ + 1]]
         /\ UNCHANGED sem
    ELSE ThrowLast(k, t)

\* a retry test that also classifies the error, as RetryManager.withRetry does
ShouldRetryClassified(t, kind) ==
  t.attempt < config.retryAttempts /\ kind \in {"retryable", "timeout"}

\* if (attempt < this.config.retryAttempts): a failed attempt is followed by a
\* backoff delay and another pass, whatever the error is
ShouldRetry(t, kind) == t.attempt < config.retryAttempts

\* a resolved attempt that falls through to the next pass instead of returning
OnResolvedFallThrough(k, t, kind) ==
  IF t.attempt < config.retryAttempts
    THEN LoopTest(k, [t EXCEPT !.attempt = @ + 1])
    ELSE Finish(k, [t EXCEPT !.st = "fulfilled", !.allTransient = FALSE,
                             !.out = SuccessOut(k, kind)])

\* return result: the first attempt that resolves ends processWithRetry
OnResolved(k, t, kind) ==
  Finish(k, [t EXCEPT !.st = "fulfilled", !.allTransient = FALSE,
                      !.out = SuccessOut(k, kind)])

\* the partition of batchResults
IsSuccess(o) == o.success /\ o.data # UNDEFINED

\* the values in the order in which the callbacks ended: those that overtook
\* an earlier item first
SuccessesAsEnded(b) ==
  LET first == SelectSeq(b, LAMBDA k : IsSuccess(tasks[k].out) /\ tasks[k].overtook)
      rest == SelectSeq(b, LAMBDA k : IsSuccess(tasks[k].out) /\ ~tasks[k].overtook)
      order == first \o rest IN
  [j \in 1..Len(order) |-> tasks[order[j]].out.data]

RECURSIVE Successes(_)
Successes(b) ==
  IF b = <<>> THEN <<>>
  ELSE LET o == tasks[Head(b)].out IN
       (IF IsSuccess(o) THEN <<o.data>> ELSE <<>>) \o Successes(Tail(b))

\* a partition that takes for failed only the outcomes flagged as failures
RECURSIVE FailuresByFlag(_)
FailuresByFlag(b) ==
  IF b = <<>> THEN <<>>
  ELSE LET o == tasks[Head(b)].out IN
       (IF o.success THEN <<>>
        ELSE <<[item |-> o.item, error |-> OrElse(o.error, DefaultError)]>>)
       \o FailuresByFlag(Tail(b))

RECURSIVE Failures(_)
Failures(b) ==
  IF b = <<>> THEN <<>>
  ELSE LET o == tasks[Head(b)].out IN
       (IF IsSuccess(o) THEN <<>>
        ELSE <<[item |-> o.item, error |-> OrElse(o.error, DefaultError)]>>)
       \o Failures(Tail(b))

NoRet ==
  [kind |-> "none", success |-> <<>>, failed |-> <<>>, totalProcessed |-> 0,
   memoryUsage |-> [before |-> 0, after |-> 0, peak |-> 0]]

\* RetryManager.stats (src/src/utils/retry.ts), averageAttempts as the fraction num/den
NewStats ==
  [totalAttempts |-> 0, successfulRetries |-> 0, failedRetries |-> 0,
   averageAttempts |-> [num |-> 0, den |-> 1]]

NoConfig ==
  [maxRetries |-> 0, backoffStrategy |-> "fixed", baseDelay |-> 0, maxDelay |-> 0,
   onRetry |-> FALSE]

\* pc, attempt, lastError, cfg, delay: the call in progress.  History of the
\* current or last call: calls (withRetry calls begun), maxRetries, invoked
\* (operation() calls), delays (backoff delays begun), onRetryCalls,
\* allRetryable (every attempt so far failed with a retryable error), result,
\* thrown (the error propagated), successAt (attempt index of the success, -1
\* if none), before (stats when the call began)
NoCall ==
  [pc |-> "idle", attempt |-> 0, lastError |-> 0, cfg |-> NoConfig, delay |-> 0,
   calls |-> 0, maxRetries |-> 0, invoked |-> 0, delays |-> 0, onRetryCalls |-> 0,
   allRetryable |-> TRUE, result |-> "none", thrown |-> 0, successAt |-> -1,
   before |-> NewStats]

\* DEFAULT_BATCH_CONFIG.delay, in ms
DefaultDelay == 100

\* waited: ms of the delays begun since the previous chunk settled and before
\* the current chunk's dispatch; pacings: pacing delays begun in this run;
\* gc, sample: forceGC was invoked for the chunk about to start, and the
\* sample that isOverThreshold compared
NoTimer == [waited |-> 0, pacings |-> 0, gc |-> FALSE, sample |-> 0]

\* the chunk is dispatched: the suspension before it is over
Dispatch(t) == [NoTimer EXCEPT !.pacings = t.pacings]

\* a pressure delay of the configured delay only
PressureDelaySingle(cfg) == cfg.delay

\* this.config.delay * 2
PressureDelay(cfg) == cfg.delay * 2

\* a pacing test that also paces after the final chunk
NotFinalChunkInclusive(from, cfg, n) == from + cfg.batchSize <= n

\* if (i + this.config.batchSize < items.length)
NotFinalChunk(from, cfg, n) == from + cfg.batchSize < n

\* no adaptiveOptimization call yet
NoAdapt == [called |-> FALSE, processingTime |-> 0, memoryUsage |-> 0, batchSize |-> 0,
            maxConcurrency |-> 0, delay |-> 0]

\* invocation id of executeBatch; startHeap is the heap use at the moment of
\* the call, which the code does not sample; traced: the order in which the
\* callbacks of a chunk end is recorded in the tasks
NewRun(id) == [id |-> id, startHeap |-> 0, traced |-> FALSE]

\* the locals of an executeBatch invocation that has not been called
IdleInvocation(id) ==
  [pc |-> "idle", items |-> <<>>, i |-> 0, batch |-> <<>>, results |-> <<>>,
   failures |-> <<>>, tasks |-> <<>>, sem |-> NewSemaphore(0), chunks |-> <<>>,
   ret |-> NoRet, timer |-> NoTimer, run |-> NewRun(id)]

\* ---- MemoryCache and PerformanceOptimizer, as constructed ----
MaxCacheSize == 2     \* config.maxSize is drawn from 1..MaxCacheSize
MaxTTL == 2           \* config.defaultTTL, in clock ticks
MaxClock == 2         \* Date.now() runs over 0..MaxClock
MaxLookups == 2       \* get calls counted in stats.hits + stats.misses
MaxCallers == 3       \* callers of optimizeOperation
MaxOperations == 2    \* config.maxConcurrentOperations is drawn from 1..MaxOperations

\* new MemoryCache({maxSize}): an empty Map and zeroed statistics; cache is
\* the Map as the sequence of its entries in insertion order; hitRate is
\* hits / (hits + misses) and is not kept; now is the value of Date.now()
NewCache(maxSize) ==
  [config |-> [maxSize |-> maxSize, defaultTTL |-> MaxTTL],
   cache |-> <<>>,
   stats |-> [hits |-> 0, misses |-> 0, size |-> 0, memoryUsage |-> 0],
   now |-> 0]

\* new PerformanceOptimizer({maxConcurrentOperations}); callers[c] is where
\* the c-th call of optimizeOperation stands
NewPerf(maxConcurrentOperations) ==
  [config |-> [maxConcurrentOperations |-> maxConcurrentOperations],
   activeOperations |-> 0,
   callers |-> [c \in 1..MaxCallers |-> "none"]]

\* ---- initial state: a constructed BatchOptimizer ----
Init ==
  /\ config \in [batchSize : 1..MaxBatchSize,
                 maxConcurrency : 1..MaxConcurrency,
                 retryAttempts : 0..MaxRetryAttempts,
                 delay : {DefaultDelay},
                 memoryThreshold : {MemoryThreshold}]
  /\ \E m \in HeapVals : monitor = [initialMemory |-> m, peakMemory |-> m]
  /\ pc = "idle"
  /\ items = <<>>
  /\ i = 0
  /\ batch = <<>>
  /\ results = <<>>
  /\ failures = <<>>
  /\ tasks = <<>>
  /\ sem = NewSemaphore(0)
  /\ orphans = 0
  /\ chunks = <<>>
  /\ ret = NoRet
  /\ stats = NewStats
  /\ rm = NoCall
  /\ timer = NoTimer
  /\ adapt = NoAdapt
  /\ run = NewRun(0)
  /\ other = IdleInvocation(1)
  /\ mcache = NewCache(1)
  /\ perf = NewPerf(1)

\* ---- executeBatch ----
ExecuteBatch(n) ==
  /\ pc = "idle"
  /\ n * config.retryAttempts <= MaxWork   \* bound of the model, not of the code
  /\ items' = [k \in 1..n |-> ItemVal(k + MaxItems * run.id)]
  /\ i' = 0
  /\ results' = <<>>
  /\ failures' = <<>>
  /\ tasks' = [k \in 1..n |-> NewTask]
  /\ pc' = "loop"
  /\ timer' = NoTimer
  /\ UNCHANGED <<config, monitor, batch, sem, orphans, chunks, ret, stats, rm, adapt, other, mcache, perf>>

\* processBatchConcurrently up to its await Promise.all
StartChunk(b) ==
  LET r == MapAcquire(b, NewSemaphore(config.maxConcurrency), tasks) IN
  /\ sem' = r.sem
  /\ tasks' = r.tasks
  /\ pc' = "chunk"

\* one pass of the loop head: slice, memory check, and the chunk's start unless
\* the pressure delay is awaited first
LoopEnter ==
  /\ pc = "loop"
  /\ i < Len(items)
  /\ batch' = Slice(i, config.batchSize)
  /\ chunks' = Append(chunks, batch')
  /\ \E s1 \in HeapVals, s2 \in HeapVals :
       /\ monitor' = updatePeak(monitor, s1)
       /\ IF isOverThreshold(s2, config.memoryThreshold)
            THEN /\ pc' = "gcDelay"
                 /\ timer' = [timer EXCEPT !.gc = TRUE, !.sample = s2,
                                            !.waited = @ + PressureDelay(config)]
                 /\ UNCHANGED <<sem, tasks>>
            ELSE /\ StartChunk(batch')
                 /\ timer' = Dispatch(timer)
  /\ UNCHANGED <<config, items, i, results, failures, orphans, ret, stats, rm, adapt, run, other, mcache, perf>>

PressureDelayDone ==
  /\ pc = "gcDelay"
  /\ StartChunk(batch)
  /\ timer' = Dispatch(timer)
  /\ UNCHANGED <<config, monitor, items, i, batch, results, failures, orphans, chunks,
                 ret, stats, rm, adapt, run, other, mcache, perf>>

\* the loop ends: the BatchResult is returned
LoopExit ==
  /\ pc = "loop"
  /\ i >= Len(items)
  /\ \E s \in HeapVals :
       ret' = [kind |-> "result", success |-> results, failed |-> failures,
               totalProcessed |-> Len(items), memoryUsage |-> getStats(monitor, s)]
  /\ pc' = "done"
  /\ UNCHANGED <<config, monitor, items, i, batch, results, failures, tasks, sem,
                 orphans, chunks, stats, rm, timer, adapt, run, other, mcache, perf>>

\* a callback resumes after semaphore.acquire() and enters processWithRetry
ItemBegin(k) ==
  /\ tasks[k].st = "acquired"
  /\ LoopTest(k, [tasks[k] EXCEPT !.attempt = 1])
  /\ UNCHANGED <<config, monitor, pc, items, i, batch, results, failures, orphans,
                 chunks, ret, stats, rm, timer, adapt, run, other, mcache, perf>>

\* Promise.race([processor(item), timeoutPromise]) settles
AttemptSettle(k, kind) ==
  /\ tasks[k].st = "running"
  /\ LET t == tasks[k] IN
     IF kind \in Resolved
       THEN OnResolved(k, t, kind)
       ELSE LET e == [t EXCEPT !.lastError = kind, !.fails = @ + 1,
                               !.allTransient = @ /\ kind \in {"retryable", "timeout"}] IN
            IF ShouldRetry(t, kind)
              THEN /\ tasks' = [tasks EXCEPT ![k] = [e EXCEPT !.st = "backoff",
                                                              !.backoffs = @ + 1]]
                   /\ UNCHANGED sem
              ELSE ThrowLast(k, [e EXCEPT !.attempt = @ + 1])
  /\ orphans' = IF kind = "timeout" THEN orphans + 1 ELSE orphans
  /\ UNCHANGED <<config, monitor, pc, items, i, batch, results, failures, chunks, ret, stats, rm, timer, adapt, run, other, mcache, perf>>

\* await this.delay(retryDelay) ends: attempt++ and the next pass of the loop
BackoffDone(k) ==
  /\ tasks[k].st = "backoff"
  /\ LoopTest(k, [tasks[k] EXCEPT !.attempt = @ + 1])
  /\ UNCHANGED <<config, monitor, pc, items, i, batch, results, failures, orphans,
                 chunks, ret, stats, rm, timer, adapt, run, other, mcache, perf>>

\* a processor call that lost the race ends in the background
OrphanSettle ==
  /\ orphans > 0
  /\ orphans' = orphans - 1
  /\ UNCHANGED <<config, monitor, pc, items, i, batch, results, failures, tasks, sem,
                 chunks, ret, stats, rm, timer, adapt, run, other, mcache, perf>>

InBatch == {batch[j] : j \in 1..Len(batch)}

\* a wait that ends with the first callback to return (Promise.race)
AnyFulfilled(b) == \E j \in 1..Len(b) : tasks[b[j]].st = "fulfilled"

\* Promise.all(promises) resolves when every callback of the chunk has returned
AllFulfilled(b) == \A j \in 1..Len(b) : tasks[b[j]].st = "fulfilled"

\* Promise.all resolves: partition, then the pacing delay or the next pass
ChunkSettle ==
  /\ pc = "chunk"
  /\ AllFulfilled(batch)
  /\ results' = results \o Successes(batch)
  /\ failures' = failures \o Failures(batch)
  /\ IF NotFinalChunk(i, config, Len(items))
       THEN /\ pc' = "pacing"
            /\ i' = i
            /\ timer' = [timer EXCEPT !.waited = @ + config.delay, !.pacings = @ + 1]
       ELSE /\ pc' = "loop"
            /\ i' = i + config.batchSize
            /\ UNCHANGED timer
  /\ UNCHANGED <<config, monitor, items, batch, tasks, sem, orphans, chunks, ret, stats, rm, adapt, run, other, mcache, perf>>

\* Promise.all rejects: executeBatch logs and rethrows
ChunkReject ==
  /\ pc = "chunk"
  /\ \E k \in InBatch : tasks[k].st = "rejected"
  /\ pc' = "thrown"
  /\ ret' = [NoRet EXCEPT !.kind = "throw"]
  /\ UNCHANGED <<config, monitor, items, i, batch, results, failures, tasks, sem,
                 orphans, chunks, stats, rm, timer, adapt, run, other, mcache, perf>>

PacingDone ==
  /\ pc = "pacing"
  /\ i' = i + config.batchSize
  /\ pc' = "loop"
  /\ UNCHANGED <<config, monitor, items, batch, results, failures, tasks, sem,
                 orphans, chunks, ret, stats, rm, timer, adapt, run, other, mcache, perf>>

Next ==
  \/ \E n \in 0..MaxItems : ExecuteBatch(n) /\ UNCHANGED run
  \/ LoopEnter
  \/ PressureDelayDone
  \/ LoopExit
  \/ \E k \in DOMAIN tasks : ItemBegin(k)
  \/ \E k \in DOMAIN tasks, kind \in Outcomes : AttemptSettle(k, kind)
  \/ \E k \in DOMAIN tasks : BackoffDone(k)
  \/ OrphanSettle
  \/ ChunkSettle
  \/ ChunkReject
  \/ PacingDone

Spec == Init /\ [][Next]_vars

\* the steps of a run that the event loop takes by itself: timers fire
\* (timeoutMs, backoff, pacing and pressure delays) and resolved promises
\* continue.  Not among them: the call of executeBatch, and the end of a
\* processor call that lost the race, which may never come
RunStep ==
  \/ LoopEnter
  \/ PressureDelayDone
  \/ LoopExit
  \/ \E k \in DOMAIN tasks : ItemBegin(k)
  \/ \E k \in DOMAIN tasks : AttemptSettle(k, "timeout")
  \/ \E k \in DOMAIN tasks : BackoffDone(k)
  \/ ChunkSettle
  \/ ChunkReject
  \/ PacingDone

SpecLive == Spec /\ WF_vars(RunStep)

\* runs with two callbacks of a chunk in flight at a time, in which the order
\* of their ends is recorded
InitOrder ==
  /\ config \in [batchSize : {2, 3},
                 maxConcurrency : {2},
                 retryAttempts : {1, 2},
                 delay : {DefaultDelay},
                 memoryThreshold : {MemoryThreshold}]
  /\ \E m \in HeapVals : monitor = [initialMemory |-> m, peakMemory |-> m]
  /\ pc = "idle"
  /\ items = <<>>
  /\ i = 0
  /\ batch = <<>>
  /\ results = <<>>
  /\ failures = <<>>
  /\ tasks = <<>>
  /\ sem = NewSemaphore(0)
  /\ orphans = 0
  /\ chunks = <<>>
  /\ ret = NoRet
  /\ stats = NewStats
  /\ rm = NoCall
  /\ timer = NoTimer
  /\ adapt = NoAdapt
  /\ run = [NewRun(0) EXCEPT !.traced = TRUE]
  /\ other = IdleInvocation(1)
  /\ mcache = NewCache(1)
  /\ perf = NewPerf(1)

SpecOrder == InitOrder /\ [][Next]_vars

\* ======================== two invocations of executeBatch ================
\* the locals and the callbacks of the invocation the model is stepping
Invocation ==
  [pc |-> pc, items |-> items, i |-> i, batch |-> batch, results |-> results,
   failures |-> failures, tasks |-> tasks, sem |-> sem, chunks |-> chunks,
   ret |-> ret, timer |-> timer, run |-> run]

\* results as a field of the optimizer, which every invocation appends to
ResultsShared(o) == results

\* const results: R[] = [] is a local of the invocation
ResultsOf(o) == o.results

\* the event loop turns to the other invocation: from here on the steps are
\* those of its callbacks, on its locals; config, memoryMonitor and the
\* module-level state are the same objects for both
Switch ==
  /\ pc # "idle"            \* the invocation with id 0 is the one called first
  /\ other.pc # "done"      \* an invocation that returned has no step left
  /\ other' = Invocation
  /\ pc' = other.pc
  /\ items' = other.items
  /\ i' = other.i
  /\ batch' = other.batch
  /\ results' = ResultsOf(other)
  /\ failures' = other.failures
  /\ tasks' = other.tasks
  /\ sem' = other.sem
  /\ chunks' = other.chunks
  /\ ret' = other.ret
  /\ timer' = other.timer
  /\ run' = other.run
  /\ UNCHANGED <<config, monitor, orphans, stats, rm, adapt, mcache, perf>>

\* executeBatch is called with n items while the heap use is heap
StartRun(n, heap) ==
  /\ ExecuteBatch(n)
  /\ run' = [run EXCEPT !.startHeap = heap]

\* items of one call in the runs with two invocations
MaxRunItems == 2

\* what an attempt ends with in those runs
RunOutcomes == {"value", "retryable", "nullish"}

InitRuns ==
  /\ config \in [batchSize : 1..MaxRunItems,
                 maxConcurrency : {1},
                 retryAttempts : {1},   \* one attempt per item: no backoff
                 delay : {DefaultDelay},
                 memoryThreshold : {MemoryThreshold}]
  /\ \E m \in HeapVals : monitor = [initialMemory |-> m, peakMemory |-> m]
  /\ pc = "idle"
  /\ items = <<>>
  /\ i = 0
  /\ batch = <<>>
  /\ results = <<>>
  /\ failures = <<>>
  /\ tasks = <<>>
  /\ sem = NewSemaphore(0)
  /\ orphans = 0
  /\ chunks = <<>>
  /\ ret = NoRet
  /\ stats = NewStats
  /\ rm = NoCall
  /\ timer = NoTimer
  /\ adapt = NoAdapt
  /\ run = NewRun(0)
  /\ other = IdleInvocation(1)
  /\ mcache = NewCache(1)
  /\ perf = NewPerf(1)

NextRuns ==
  \/ \E n \in 0..MaxRunItems, heap \in HeapVals : StartRun(n, heap)
  \/ Switch
  \/ LoopEnter
  \/ PressureDelayDone
  \/ LoopExit
  \/ \E k \in DOMAIN tasks : ItemBegin(k)
  \/ \E k \in DOMAIN tasks, kind \in RunOutcomes : AttemptSettle(k, kind)
  \/ ChunkSettle
  \/ ChunkReject
  \/ PacingDone

SpecRuns == InitRuns /\ [][NextRuns]_vars

\* ======================== adaptiveOptimization ========================
\* memoryUsage > this.config.memoryThreshold * 0.8
MemoryPressure(cfg, memoryUsage) == memoryUsage * 10 > cfg.memoryThreshold * 8

\* processingTime > 10000
SlowProcessing(processingTime) == processingTime > 10000

\* processingTime < 2000 && memoryUsage < this.config.memoryThreshold * 0.5
GoodPerformance(cfg, memoryUsage, processingTime) ==
  processingTime < 2000 /\ memoryUsage * 2 < cfg.memoryThreshold

\* batchSize * 0.7 rounded down, with no floor of 1
ShrinkBatchNoFloor(batchSize) == (batchSize * 7) \div 10

\* Math.max(1, Math.floor(this.config.batchSize * 0.7))
ShrinkBatch(batchSize) == Max(1, (batchSize * 7) \div 10)

\* Math.min(this.config.delay * 1.5, 1000); the delays of the model are such
\* that delay * 1.5 is a whole number of ms whenever it is below the cap
GrowDelay(delay) == Min((delay * 3) \div 2, 1000)

\* the memory rule
ReduceForMemory(cfg) ==
  [cfg EXCEPT !.batchSize = ShrinkBatch(@), !.delay = GrowDelay(@)]

\* the two latency rules
TuneForLatency(cfg, memoryUsage, processingTime) ==
  IF SlowProcessing(processingTime)
    THEN [cfg EXCEPT !.maxConcurrency = Max(1, @ - 1)]
    ELSE IF GoodPerformance(cfg, memoryUsage, processingTime)
      THEN [cfg EXCEPT !.maxConcurrency = Min(5, @ + 1),
                       !.batchSize = Min(10, @ + 1)]
      ELSE cfg

\* the three rules as one if / else-if chain
adaptiveOptimizationChain(cfg, memoryUsage, processingTime) ==
  IF MemoryPressure(cfg, memoryUsage)
    THEN ReduceForMemory(cfg)
    ELSE TuneForLatency(cfg, memoryUsage, processingTime)

\* the memory rule, then the latency rules on the configuration it left
adaptiveOptimization(cfg, memoryUsage, processingTime) ==
  TuneForLatency(IF MemoryPressure(cfg, memoryUsage) THEN ReduceForMemory(cfg) ELSE cfg,
                 memoryUsage, processingTime)

\* arguments on both sides of every comparison
ProcessingTimes == {1999, 2000, 10000, 10001}
MemoryUsages == 0..(MemoryThreshold + 1)

\* configurations a caller constructs: the defaults (5, 3), the floors, and
\* values above the caps of the good-performance rule
BatchSizes == {1, 2, 5, 12}
Concurrencies == {1, 3, 7}
Delays == {0, 128, 1000, 2000}

AdaptiveOptimization(memoryUsage, processingTime) ==
  /\ rm.pc = "idle"
  /\ config' = adaptiveOptimization(config, memoryUsage, processingTime)
  /\ adapt' = [called |-> TRUE, processingTime |-> processingTime,
               memoryUsage |-> memoryUsage, batchSize |-> config.batchSize,
               maxConcurrency |-> config.maxConcurrency, delay |-> config.delay]
  /\ UNCHANGED <<monitor, pc, items, i, batch, results, failures, tasks, sem,
                 orphans, chunks, ret, stats, rm, timer, run, other, mcache, perf>>

\* a constructed BatchOptimizer on which executeBatch is not running
InitAdaptive ==
  /\ config \in [batchSize : BatchSizes, maxConcurrency : Concurrencies,
                 retryAttempts : {MaxRetryAttempts}, delay : Delays,
                 memoryThreshold : {MemoryThreshold}]
  /\ monitor = [initialMemory |-> MemoryThreshold, peakMemory |-> MemoryThreshold]
  /\ pc = "idle"
  /\ items = <<>>
  /\ i = 0
  /\ batch = <<>>
  /\ results = <<>>
  /\ failures = <<>>
  /\ tasks = <<>>
  /\ sem = NewSemaphore(0)
  /\ orphans = 0
  /\ chunks = <<>>
  /\ ret = NoRet
  /\ stats = NewStats
  /\ rm = NoCall
  /\ timer = NoTimer
  /\ adapt = NoAdapt
  /\ run = NewRun(0)
  /\ other = IdleInvocation(1)
  /\ mcache = NewCache(1)
  /\ perf = NewPerf(1)

NextAdaptive ==
  \E memoryUsage \in MemoryUsages, processingTime \in ProcessingTimes :
    AdaptiveOptimization(memoryUsage, processingTime)

SpecAdaptive == InitAdaptive /\ [][NextAdaptive]_vars

\* ---- adaptiveOptimization called while an executeBatch run is suspended ----
\* executeBatch is at an await: Promise.all of a chunk, the pacing delay or
\* the pressure delay
Suspended == pc \in {"chunk", "pacing", "gcDelay"}

\* what an attempt ends with in these runs
TunedOutcomes == {"value", "retryable"}

InitTuned ==
  /\ config \in [batchSize : {1, 2},
                 maxConcurrency : {1, 2},
                 retryAttempts : {1},
                 delay : {DefaultDelay},
                 memoryThreshold : {MemoryThreshold}]
  /\ \E m \in HeapVals : monitor = [initialMemory |-> m, peakMemory |-> m]
  /\ pc = "idle"
  /\ items = <<>>
  /\ i = 0
  /\ batch = <<>>
  /\ results = <<>>
  /\ failures = <<>>
  /\ tasks = <<>>
  /\ sem = NewSemaphore(0)
  /\ orphans = 0
  /\ chunks = <<>>
  /\ ret = NoRet
  /\ stats = NewStats
  /\ rm = NoCall
  /\ timer = NoTimer
  /\ adapt = NoAdapt
  /\ run = NewRun(0)
  /\ other = IdleInvocation(1)
  /\ mcache = NewCache(1)
  /\ perf = NewPerf(1)

\* one run, and at most one adaptiveOptimization call while it is suspended
NextTuned ==
  \/ \E n \in 0..MaxItems : ExecuteBatch(n) /\ UNCHANGED run
  \/ \E memoryUsage \in MemoryUsages, processingTime \in ProcessingTimes :
       /\ Suspended
       /\ ~adapt.called
       /\ AdaptiveOptimization(memoryUsage, processingTime)
  \/ LoopEnter
  \/ PressureDelayDone
  \/ LoopExit
  \/ \E k \in DOMAIN tasks : ItemBegin(k)
  \/ \E k \in DOMAIN tasks, kind \in TunedOutcomes : AttemptSettle(k, kind)
  \/ ChunkSettle
  \/ PacingDone

SpecTuned == InitTuned /\ [][NextTuned]_vars

\* ======================== RetryManager (src/src/utils/retry.ts) ========
\* strings whose content is looked into are sequences of characters
UpperCase == <<"A", "B", "C", "D", "E", "F", "G", "H", "I", "J", "K", "L", "M", "N", "O", "P", "Q", "R", "S", "T", "U", "V", "W", "X", "Y", "Z">>
LowerCase == <<"a", "b", "c", "d", "e", "f", "g", "h", "i", "j", "k", "l", "m", "n", "o", "p", "q", "r", "s", "t", "u", "v", "w", "x", "y", "z">>
LowerChar(c) ==
  IF \E n \in 1..Len(UpperCase) : UpperCase[n] = c
    THEN LowerCase[CHOOSE n \in 1..Len(UpperCase) : UpperCase[n] = c]
    ELSE c
toLowerCase(str) == [n \in 1..Len(str) |-> LowerChar(str[n])]
\* str.includes(sub)
includes(str, sub) ==
  \E from \in 0..(Len(str) - Len(sub)) :
    \A n \in 1..Len(sub) : str[from + n] = sub[n]

\* defaultConfig.retryableErrors
RetryableErrors ==
  << <<"E", "C", "O", "N", "N", "R", "E", "F", "U", "S", "E", "D">>,
     <<"E", "N", "O", "T", "F", "O", "U", "N", "D">>,
     <<"E", "T", "I", "M", "E", "D", "O", "U", "T">>,
     <<"E", "C", "O", "N", "N", "R", "E", "S", "E", "T">>,
     <<"N", "e", "t", "w", "o", "r", "k", " ", "E", "r", "r", "o", "r">>,
     <<"t", "i", "m", "e", "o", "u", "t">> >>

\* the errors an operation rejects with: message, code (<<>> when the error
\* has none) and name
Errors ==
  << [message |-> <<"c", "o", "n", "n", "e", "c", "t", " ", "E", "T", "I", "M", "E", "D", "O", "U", "T">>, code |-> <<"E", "T", "I", "M", "E", "D", "O", "U", "T">>, name |-> <<"E", "r", "r", "o", "r">>],
     [message |-> <<"s", "o", "c", "k", "e", "t", " ", "h", "a", "n", "g", " ", "u", "p">>, code |-> <<"E", "C", "O", "N", "N", "R", "E", "S", "E", "T">>, name |-> <<"E", "r", "r", "o", "r">>],
     [message |-> <<>>, code |-> <<>>, name |-> <<"T", "i", "m", "e", "o", "u", "t", "E", "r", "r", "o", "r">>],
     [message |-> <<"I", "n", "v", "a", "l", "i", "d", " ", "i", "d">>, code |-> <<>>, name |-> <<"V", "a", "l", "i", "d", "a", "t", "i", "o", "n", "E", "r", "r", "o", "r">>],
     [message |-> <<"N", "E", "T", "W", "O", "R", "K", " ", "E", "R", "R", "O", "R">>, code |-> <<>>, name |-> <<"E", "r", "r", "o", "r">>],
     [message |-> <<"s", "o", "c", "k", "e", "t", " ", "h", "a", "n", "g", " ", "u", "p">>, code |-> <<"e", "c", "o", "n", "n", "r", "e", "s", "e", "t">>, name |-> <<"E", "r", "r", "o", "r">>] >>
ErrorIds == 1..Len(Errors)

\* a classification that retries every error
isRetryableErrorAlways(error, retryableErrors) == TRUE

isRetryableError(error, retryableErrors) ==
  LET errorMessage == toLowerCase(error.message)
      errorCode == error.code IN
  \E n \in 1..Len(retryableErrors) :
    LET lowerRetryable == toLowerCase(retryableErrors[n]) IN
    \/ includes(errorMessage, lowerRetryable)
    \/ errorCode = retryableErrors[n]
    \/ includes(toLowerCase(error.name), lowerRetryable)

\* the errors that isRetryableError accepts under the default list
RetryableIds == {e \in ErrorIds : isRetryableError(Errors[e], RetryableErrors)}

\* Math.random() as tenths: 0, 0.5 and 0.9
RandomTenths == {0, 5, 9}
\* delays are multiples of 100 ms, so a jitter of tenths of 10% is whole
BaseDelays == {100, 1000}
MaxDelays == {250, 10000}
Strategies == {"linear", "exponential", "fixed"}

\* the switch of calculateDelay: the delay before the jitter
BackoffDelay(attempt, cfg) ==
  CASE cfg.backoffStrategy = "linear" -> cfg.baseDelay * (attempt + 1)
    [] cfg.backoffStrategy = "exponential" -> cfg.baseDelay * 2^attempt
    [] OTHER -> cfg.baseDelay

\* a calculateDelay that clamps before it adds the jitter
calculateDelayClampFirst(attempt, cfg, random) ==
  LET delay == Min(BackoffDelay(attempt, cfg), cfg.maxDelay) IN
  delay + (random * delay) \div 100

calculateDelay(attempt, cfg, random) ==
  LET delay == BackoffDelay(attempt, cfg)
      jitter == (random * delay) \div 100 IN
  Min(delay + jitter, cfg.maxDelay)

updateAverageAttempts(st) ==
  LET totalOperations == st.successfulRetries + st.failedRetries IN
  IF totalOperations > 0
    THEN [st EXCEPT !.averageAttempts = [num |-> st.totalAttempts, den |-> totalOperations]]
    ELSE st

\* if (attempt > 0) this.stats.successfulRetries++, with the test always true
SucceededAfterRetryAlways(attempt) == attempt >= 0

SucceededAfterRetry(attempt) == attempt > 0

\* the exhaustion test, one attempt late
RetriesExhaustedLate(attempt, cfg) == attempt > cfg.maxRetries

\* if (attempt >= finalConfig.maxRetries)
RetriesExhausted(attempt, cfg) == attempt >= cfg.maxRetries

\* the call is over: its locals are gone
EndCall(r, result, err) ==
  [r EXCEPT !.pc = "idle", !.attempt = 0, !.lastError = 0, !.cfg = NoConfig,
            !.delay = 0, !.result = result, !.thrown = err]

\* the head of the while loop and the try block up to await operation()
TryAttempt(r) ==
  IF r.attempt <= r.cfg.maxRetries
    THEN /\ stats' = [stats EXCEPT !.totalAttempts = @ + 1]
         /\ rm' = [r EXCEPT !.pc = "attempting", !.invoked = @ + 1]
    ELSE /\ stats' = updateAverageAttempts(stats)
         /\ rm' = EndCall(r, "thrown", r.lastError)

BatchIdle ==
  UNCHANGED <<config, monitor, pc, items, i, batch, results, failures, tasks, sem,
              orphans, chunks, ret, timer, adapt, run, other, mcache, perf>>

\* withRetry(operation, config) is called
WithRetry(cfg) ==
  /\ rm.pc = "idle"
  /\ rm.calls < MaxCalls
  /\ TryAttempt([NoCall EXCEPT !.cfg = cfg, !.calls = rm.calls + 1,
                               !.maxRetries = cfg.maxRetries, !.before = stats])
  /\ BatchIdle

\* await operation() resolves
OperationResolves ==
  /\ rm.pc = "attempting"
  /\ stats' = updateAverageAttempts(
                IF SucceededAfterRetry(rm.attempt)
                  THEN [stats EXCEPT !.successfulRetries = @ + 1]
                  ELSE stats)
  /\ rm' = EndCall([rm EXCEPT !.allRetryable = FALSE, !.successAt = rm.attempt],
                   "returned", 0)
  /\ BatchIdle

\* await operation() rejects with error e; random is what Math.random() gives
\* if the delay is calculated
OperationRejects(e, random) ==
  /\ rm.pc = "attempting"
  /\ LET retryable == e \in RetryableIds
         r == [rm EXCEPT !.lastError = e, !.allRetryable = @ /\ retryable] IN
     IF ~retryable
       THEN /\ rm' = EndCall(r, "thrown", e)
            /\ UNCHANGED stats
       ELSE IF RetriesExhausted(rm.attempt, rm.cfg)
         THEN /\ stats' = updateAverageAttempts(
                            [stats EXCEPT !.failedRetries = @ + 1])
              /\ rm' = EndCall(r, "thrown", e)
         ELSE /\ rm' = [r EXCEPT !.pc = "delay",
                                 !.delay = calculateDelay(rm.attempt, rm.cfg, random),
                                 !.delays = @ + 1,
                                 !.onRetryCalls = IF rm.cfg.onRetry THEN @ + 1 ELSE @]
              /\ UNCHANGED stats
  /\ BatchIdle

\* await this.delay(delay) ends: attempt++ and the next pass of the loop
RetryDelayDone ==
  /\ rm.pc = "delay"
  /\ TryAttempt([rm EXCEPT !.attempt = @ + 1, !.delay = 0])
  /\ BatchIdle

RetryConfigs ==
  [maxRetries : 0..MaxRetries, backoffStrategy : Strategies,
   baseDelay : BaseDelays, maxDelay : MaxDelays, onRetry : BOOLEAN]

\* a fresh module: the retryManager singleton, and a BatchOptimizer that is
\* not used
InitRetry ==
  /\ config = [batchSize |-> 1, maxConcurrency |-> 1, retryAttempts |-> 0,
               delay |-> DefaultDelay, memoryThreshold |-> MemoryThreshold]
  /\ monitor = [initialMemory |-> MemoryThreshold, peakMemory |-> MemoryThreshold]
  /\ pc = "idle"
  /\ items = <<>>
  /\ i = 0
  /\ batch = <<>>
  /\ results = <<>>
  /\ failures = <<>>
  /\ tasks = <<>>
  /\ sem = NewSemaphore(0)
  /\ orphans = 0
  /\ chunks = <<>>
  /\ ret = NoRet
  /\ stats = NewStats
  /\ rm = NoCall
  /\ timer = NoTimer
  /\ adapt = NoAdapt
  /\ run = NewRun(0)
  /\ other = IdleInvocation(1)
  /\ mcache = NewCache(1)
  /\ perf = NewPerf(1)

NextRetry ==
  \/ \E cfg \in RetryConfigs : WithRetry(cfg)
  \/ OperationResolves
  \/ \E e \in ErrorIds, random \in RandomTenths : OperationRejects(e, random)
  \/ RetryDelayDone

SpecRetry == InitRetry /\ [][NextRetry]_vars

\* ======================== MemoryCache (src/unnamed/part_009) ============
CacheKeys == {"", "a", "b"}
CacheValues == {"v"}
CacheTTLs == {0, 1}         \* the ttl argument; 0 stands for an omitted one too

\* Map.has / Map.get: the position of key in the Map, 0 when absent
IndexOf(cache, key) ==
  IF \E p \in 1..Len(cache) : cache[p].key = key
  THEN CHOOSE p \in 1..Len(cache) : cache[p].key = key
  ELSE 0

\* Map.delete of the entry at position p
DeleteAt(cache, p) == [q \in 1..(Len(cache) - 1) |-> IF q < p THEN cache[q] ELSE cache[q + 1]]

\* Map.set: an existing key keeps its position, a new key goes last
MapSet(cache, item) ==
  IF IndexOf(cache, item.key) # 0
  THEN [cache EXCEPT ![IndexOf(cache, item.key)] = item]
  ELSE Append(cache, item)

\* now - item.timestamp > item.ttl
Expired(item, now) == now - item.timestamp > item.ttl

\* the loop of evictLRU from position p on: lruKey (as a position, 0 for
\* null) and lruTime so far
RECURSIVE ScanLRU(_, _, _, _)
ScanLRU(cache, p, lruKey, lruTime) ==
  IF p > Len(cache) THEN lruKey
  ELSE IF cache[p].lastAccessed < lruTime
       THEN ScanLRU(cache, p + 1, p, cache[p].lastAccessed)
       ELSE ScanLRU(cache, p + 1, lruKey, lruTime)

\* evictLRU: lruTime starts at Date.now(); `if (lruKey)` is false for null
\* and for the empty string
evictLRU(cache, now) ==
  LET lruKey == ScanLRU(cache, 1, 0, now)
  IN  IF lruKey # 0 /\ cache[lruKey].key # "" THEN DeleteAt(cache, lruKey) ELSE cache

\* updateStats: size and memoryUsage follow the Map
updateStats(st, cache) == [st EXCEPT !.size = Len(cache), !.memoryUsage = Len(cache) * 1024]

\* the loop of cleanup: the entries that are not expired
cleanup(cache, now) == SelectSeq(cache, LAMBDA item : ~Expired(item, now))

\* set(key, value, ttl)
CacheSet(key, value, ttl) ==
  LET now == mcache.now
      itemTTL == IF ttl # 0 THEN ttl ELSE mcache.config.defaultTTL
      full == Len(mcache.cache) >= mcache.config.maxSize /\ IndexOf(mcache.cache, key) = 0
      kept == IF full THEN evictLRU(mcache.cache, now) ELSE mcache.cache
      cache == MapSet(kept, [key |-> key, value |-> value, timestamp |-> now,
                             ttl |-> itemTTL, accessCount |-> 0, lastAccessed |-> now])
  IN  /\ mcache' = [mcache EXCEPT !.cache = cache, !.stats = updateStats(@, cache)]
      /\ UNCHANGED <<config, monitor, pc, items, i, batch, results, failures, tasks, sem,
                     orphans, chunks, ret, stats, rm, timer, adapt, run, other, perf>>

\* get(key)
CacheGet(key) ==
  LET p == IndexOf(mcache.cache, key)
      now == mcache.now
  IN  /\ mcache.stats.hits + mcache.stats.misses < MaxLookups
      /\ mcache' =
           IF p = 0 THEN [mcache EXCEPT !.stats.misses = @ + 1]
           ELSE IF Expired(mcache.cache[p], now)
                THEN [mcache EXCEPT !.cache = DeleteAt(@, p), !.stats.misses = @ + 1]
                ELSE [mcache EXCEPT !.cache[p].accessCount = @ + 1,
                                    !.cache[p].lastAccessed = now,
                                    !.stats.hits = @ + 1]
      /\ UNCHANGED <<config, monitor, pc, items, i, batch, results, failures, tasks, sem,
                     orphans, chunks, ret, stats, rm, timer, adapt, run, other, perf>>

\* delete(key)
CacheDelete(key) ==
  LET p == IndexOf(mcache.cache, key)
      cache == IF p = 0 THEN mcache.cache ELSE DeleteAt(mcache.cache, p)
  IN  /\ mcache' = [mcache EXCEPT !.cache = cache, !.stats = updateStats(@, cache)]
      /\ UNCHANGED <<config, monitor, pc, items, i, batch, results, failures, tasks, sem,
                     orphans, chunks, ret, stats, rm, timer, adapt, run, other, perf>>

\* clear()
CacheClear ==
  /\ mcache' = [mcache EXCEPT !.cache = <<>>,
                              !.stats = updateStats([@ EXCEPT !.hits = 0, !.misses = 0], <<>>)]
  /\ UNCHANGED <<config, monitor, pc, items, i, batch, results, failures, tasks, sem,
                 orphans, chunks, ret, stats, rm, timer, adapt, run, other, perf>>

\* has(key): an expired entry is deleted, the statistics are left alone
CacheHas(key) ==
  LET p == IndexOf(mcache.cache, key)
  IN  /\ mcache' = IF p # 0 /\ Expired(mcache.cache[p], mcache.now)
                    THEN [mcache EXCEPT !.cache = DeleteAt(@, p)]
                    ELSE mcache
      /\ UNCHANGED <<config, monitor, pc, items, i, batch, results, failures, tasks, sem,
                     orphans, chunks, ret, stats, rm, timer, adapt, run, other, perf>>

\* the setInterval callback: cleanup(); updateStats only when something went
CacheCleanup ==
  LET cache == cleanup(mcache.cache, mcache.now)
  IN  /\ mcache' = [mcache EXCEPT !.cache = cache,
                                  !.stats = IF Len(cache) < Len(mcache.cache)
                                            THEN updateStats(@, cache) ELSE @]
      /\ UNCHANGED <<config, monitor, pc, items, i, batch, results, failures, tasks, sem,
                     orphans, chunks, ret, stats, rm, timer, adapt, run, other, perf>>

\* the clock advances by a millisecond
ClockTick ==
  /\ mcache.now < MaxClock
  /\ mcache' = [mcache EXCEPT !.now = @ + 1]
  /\ UNCHANGED <<config, monitor, pc, items, i, batch, results, failures, tasks, sem,
                 orphans, chunks, ret, stats, rm, timer, adapt, run, other, perf>>

\* a constructed MemoryCache; nothing else runs
InitCache ==
  /\ config = [batchSize |-> 1, maxConcurrency |-> 1, retryAttempts |-> 0,
               delay |-> DefaultDelay, memoryThreshold |-> MemoryThreshold]
  /\ monitor = [initialMemory |-> MemoryThreshold, peakMemory |-> MemoryThreshold]
  /\ pc = "idle"
  /\ items = <<>>
  /\ i = 0
  /\ batch = <<>>
  /\ results = <<>>
  /\ failures = <<>>
  /\ tasks = <<>>
  /\ sem = NewSemaphore(0)
  /\ orphans = 0
  /\ chunks = <<>>
  /\ ret = NoRet
  /\ stats = NewStats
  /\ rm = NoCall
  /\ timer = NoTimer
  /\ adapt = NoAdapt
  /\ run = NewRun(0)
  /\ other = IdleInvocation(1)
  /\ mcache \in {NewCache(maxSize) : maxSize \in 1..MaxCacheSize}
  /\ perf = NewPerf(1)

NextCache ==
  \/ \E key \in CacheKeys, value \in CacheValues, ttl \in CacheTTLs : CacheSet(key, value, ttl)
  \/ \E key \in CacheKeys : CacheGet(key)
  \/ \E key \in CacheKeys : CacheDelete(key)
  \/ CacheClear
  \/ \E key \in CacheKeys : CacheHas(key)
  \/ CacheCleanup
  \/ ClockTick

SpecCache == InitCache /\ [][NextCache]_vars

\* ======================== PerformanceOptimizer ========================
\* (src/src/utils/performanceOptimizer.ts)
PerfCallers == 1..MaxCallers
OperationStarts == {"promise", "throws"}   \* what the call operation() does
OperationOutcomes == {"value", "error"}    \* how the promise of operation() settles

\* the while condition with > in place of >=
AtCapacityOffByOne(activeOperations, maxConcurrentOperations) ==
  activeOperations > maxConcurrentOperations

\* the while condition of optimizeOperation
AtCapacity(activeOperations, maxConcurrentOperations) ==
  activeOperations >= maxConcurrentOperations

\* optimizeOperation from the test of the while loop to its next await, for
\* caller c: at capacity it awaits the 10 ms timer; otherwise it increments
\* activeOperations and calls operation(), and when that call throws the
\* finally block decrements at once
EnterOrWait(c, started) ==
  IF AtCapacity(perf.activeOperations, perf.config.maxConcurrentOperations)
  THEN perf' = [perf EXCEPT !.callers[c] = "waiting"]
  ELSE IF started = "throws"
       THEN perf' = [perf EXCEPT !.callers[c] = "thrown"]
       ELSE perf' = [perf EXCEPT !.activeOperations = @ + 1, !.callers[c] = "running"]

\* optimizeOperation(operation) is called
OptimizeOperation(c, started) ==
  /\ perf.callers[c] = "none"
  /\ EnterOrWait(c, started)
  /\ UNCHANGED <<config, monitor, pc, items, i, batch, results, failures, tasks, sem,
                 orphans, chunks, ret, stats, rm, timer, adapt, run, other, mcache>>

\* the 10 ms timer of a waiting caller fires and the loop tests again
WaitDone(c, started) ==
  /\ perf.callers[c] = "waiting"
  /\ EnterOrWait(c, started)
  /\ UNCHANGED <<config, monitor, pc, items, i, batch, results, failures, tasks, sem,
                 orphans, chunks, ret, stats, rm, timer, adapt, run, other, mcache>>

\* the promise of operation() settles: finally decrements, then the caller
\* gets the value or the error
OperationSettles(c, outcome) ==
  /\ perf.callers[c] = "running"
  /\ perf' = [perf EXCEPT !.activeOperations = @ - 1,
                          !.callers[c] = IF outcome = "value" THEN "returned" ELSE "thrown"]
  /\ UNCHANGED <<config, monitor, pc, items, i, batch, results, failures, tasks, sem,
                 orphans, chunks, ret, stats, rm, timer, adapt, run, other, mcache>>

\* a constructed PerformanceOptimizer; nothing else runs
InitPerf ==
  /\ config = [batchSize |-> 1, maxConcurrency |-> 1, retryAttempts |-> 0,
               delay |-> DefaultDelay, memoryThreshold |-> MemoryThreshold]
  /\ monitor = [initialMemory |-> MemoryThreshold, peakMemory |-> MemoryThreshold]
  /\ pc = "idle"
  /\ items = <<>>
  /\ i = 0
  /\ batch = <<>>
  /\ results = <<>>
  /\ failures = <<>>
  /\ tasks = <<>>
  /\ sem = NewSemaphore(0)
  /\ orphans = 0
  /\ chunks = <<>>
  /\ ret = NoRet
  /\ stats = NewStats
  /\ rm = NoCall
  /\ timer = NoTimer
  /\ adapt = NoAdapt
  /\ run = NewRun(0)
  /\ other = IdleInvocation(1)
  /\ mcache = NewCache(1)
  /\ perf \in {NewPerf(maxConcurrentOperations) : maxConcurrentOperations \in 1..MaxOperations}

NextPerf ==
  \/ \E c \in PerfCallers, started \in OperationStarts : OptimizeOperation(c, started)
  \/ \E c \in PerfCallers, started \in OperationStarts : WaitDone(c, started)
  \/ \E c \in PerfCallers, outcome \in OperationOutcomes : OperationSettles(c, outcome)

SpecPerf == InitPerf /\ [][NextPerf]_vars

\* ======================== properties ========================
N == Len(items)
Tasks == DOMAIN tasks
Holders == {k \in Tasks : tasks[k].st \in {"acquired", "running", "backoff"}}
Waiting == {k \in Tasks : tasks[k].st = "waiting"}
Running == {k \in Tasks : tasks[k].st = "running"}
Settled(k) == tasks[k].st \in {"fulfilled", "rejected"}
FailedItem(k) == tasks[k].st = "fulfilled" /\ ~tasks[k].out.success
InSuccess(v) == \E j \in 1..Len(ret.success) : ret.success[j] = v
InFailed(x) == \E j \in 1..Len(ret.failed) : ret.failed[j].item = x
ChunkOf(k) == CHOOSE c \in 1..Len(chunks) : \E j \in 1..Len(chunks[c]) : chunks[c][j] = k
Dispatched(k) == \E c \in 1..Len(chunks) : \E j \in 1..Len(chunks[c]) : chunks[c][j] = k

\* C1: every BatchResult that executeBatch returns has
\* success.length + failed.length = totalProcessed = the number of input items.
C1_ResultCountsAddUp ==
  ret.kind = "result" =>
    /\ Len(ret.success) + Len(ret.failed) = ret.totalProcessed
    /\ ret.totalProcessed = N

\* a returned result over three items with a first-try success, a retried
\* success, a timeout and an item that exhausted its attempts
C1_Witness ==
  /\ ret.kind = "result" /\ N = 3
  /\ Len(ret.success) >= 2 /\ Len(ret.failed) >= 1
  /\ \E k \in Tasks : tasks[k].out.success /\ tasks[k].calls = 1
  /\ \E k \in Tasks : tasks[k].out.success /\ tasks[k].calls = 2
  /\ \E k \in Tasks : FailedItem(k) /\ tasks[k].out.error = TimeoutMessage

\* C2: never more callers hold a permit than the semaphore's capacity, and a
\* caller queued in acquire() leaves the queue only in a step in which a holder
\* releases.
C2_HoldersBounded ==
  /\ Cardinality(Holders) <= sem.capacity
  /\ Waiting # {} => Cardinality(Holders) = sem.capacity /\ sem.permits = 0

C2_ResumeOnlyOnRelease ==
  \A k \in Tasks :
    (tasks[k].st = "waiting" /\ tasks'[k].st # "waiting")
      => \E h \in Holders : h # k /\ tasks'[h].st \in {"fulfilled", "rejected"}

C2_SemaphoreBound == [](C2_HoldersBounded) /\ [][C2_ResumeOnlyOnRelease]_vars

\* capacity 2, three acquires, none released: the third is queued
C2_Witness ==
  /\ sem.capacity = 2
  /\ Cardinality(Holders) = 2
  /\ Len(sem.waitQueue) = 1
  /\ \A k \in Tasks : ~Settled(k)

\* C3 (as claimed): an item whose attempts all fail never aborts the batch, for
\* every retryAttempts >= 0: executeBatch does not throw.
C3_NeverAborts == ret.kind # "throw"

\* C4: no processor call for an item of a later chunk starts before every item
\* of each earlier chunk has settled.
C4_ChunksSequential ==
  \A k \in Tasks, j \in Tasks :
    (Dispatched(k) /\ Dispatched(j) /\ ChunkOf(j) < ChunkOf(k) /\ tasks[k].st # "none")
      => Settled(j)

\* an item of the second chunk is being processed
C4_Witness ==
  /\ Len(chunks) >= 2
  /\ \E k \in Tasks :
       /\ Dispatched(k) /\ ChunkOf(k) = 2
       /\ tasks[k].st = "running" /\ tasks[k].calls = 2

\* C5 (as claimed): the processor invocations started and not yet settled,
\* those abandoned by a timeout included, number at most maxConcurrency.
C5_ActiveInvocationsBounded ==
  Cardinality(Running) + orphans <= config.maxConcurrency

\* C5 (amended): the items whose attempt sequence is in progress, and so the
\* processor invocations whose result is still awaited, number at most
\* maxConcurrency.
C5_AwaitedInvocationsBounded ==
  /\ Cardinality(Running) <= config.maxConcurrency
  /\ Cardinality({k \in Tasks : tasks[k].st \in {"running", "backoff"}})
       <= config.maxConcurrency

\* maxConcurrency awaited invocations next to an abandoned one that still runs
C5_Witness ==
  /\ Cardinality(Running) = config.maxConcurrency
  /\ config.maxConcurrency = 2
  /\ orphans >= 1
  /\ Waiting # {}

\* C6 (as claimed): with retryAttempts = n, an item whose every attempt fails
\* with a retryable error or a timeout has had n+1 processor invocations when
\* it is recorded as failed.
C6_AttemptsAreRetriesPlusOne ==
  \A k \in Tasks :
    (FailedItem(k) /\ tasks[k].allTransient) => tasks[k].calls = config.retryAttempts + 1

C8_PartitionByOutcome ==
  ret.kind = "result" =>
    \A k \in Tasks :
      /\ tasks[k].out.success <=> InSuccess(tasks[k].out.data)
      /\ ~tasks[k].out.success <=> InFailed(items[k])

\* C9: the slices taken are consecutive, cover the list in order without gap
\* or overlap, number ceil(N/B) when the run ends, all have B items but the
\* last, which has N mod B (B if that is 0); an empty list gives no chunk, no
\* processor call and an empty result.
ChunkSize(c) ==
  IF c * config.batchSize <= N THEN config.batchSize
  ELSE N - (c - 1) * config.batchSize

C9_Chunking ==
  /\ \A c \in 1..Len(chunks) :
       /\ chunks[c] = [j \in 1..ChunkSize(c) |-> (c - 1) * config.batchSize + j]
       /\ Len(chunks[c]) >= 1
       /\ c < Len(chunks) => Len(chunks[c]) = config.batchSize
  /\ pc = "done" =>
       /\ Len(chunks) = (N + config.batchSize - 1) \div config.batchSize
       /\ Len(chunks) >= 1 =>
            Len(chunks[Len(chunks)]) =
              IF N % config.batchSize = 0 THEN config.batchSize
              ELSE N % config.batchSize
       /\ N = 0 => /\ chunks = <<>>
                   /\ ret.success = <<>> /\ ret.failed = <<>>
                   /\ ret.totalProcessed = 0

\* three items in chunks of two: a full chunk and a last chunk of one
C9_Witness ==
  /\ pc = "done" /\ N = 3 /\ config.batchSize = 2
  /\ Len(chunks) = 2 /\ Len(chunks[2]) = 1

NonRetryableIds == {4, 6}

\* this step is the rejection of await operation() with error e
RejectsWith(e) ==
  /\ rm.pc = "attempting"
  /\ rm'.result # "returned"
  /\ \/ rm'.pc = "delay" /\ rm'.lastError = e
     \/ rm'.pc = "idle" /\ rm'.thrown = e

\* C11: a non-retryable error is propagated at once: the rejection ends the
\* call with that error, with no further attempt, no delay, no onRetry call
\* and no increment of failedRetries, whatever retries remain
C11_NonRetryablePropagates ==
  [][\A e \in NonRetryableIds :
       RejectsWith(e) =>
         /\ rm'.pc = "idle"
         /\ rm'.result = "thrown"
         /\ rm'.thrown = e
         /\ rm'.invoked = rm.invoked
         /\ rm'.delays = rm.delays
         /\ rm'.onRetryCalls = rm.onRetryCalls
         /\ stats'.failedRetries = stats.failedRetries
         /\ stats'.totalAttempts = stats.totalAttempts]_vars

\* a second attempt failed with the case-mismatched code while a retry remained
C11_Witness ==
  /\ rm.pc = "idle"
  /\ rm.result = "thrown"
  /\ rm.thrown = 6
  /\ rm.maxRetries = MaxRetries
  /\ rm.invoked = MaxRetries
  /\ rm.delays = rm.invoked - 1
  /\ stats.failedRetries = rm.before.failedRetries

\* C12: when every attempt fails with a retryable error the operation is
\* called maxRetries + 1 times, totalAttempts grows by one per call,
\* failedRetries by exactly one, maxRetries delays are waited and the error
\* thrown is a retryable one
C12_ExhaustedRetries ==
  /\ rm.pc # "idle" => stats.totalAttempts = rm.before.totalAttempts + rm.invoked
  /\ (rm.pc = "idle" /\ rm.result = "thrown" /\ rm.allRetryable) =>
       /\ rm.invoked = rm.maxRetries + 1
       /\ stats.totalAttempts = rm.before.totalAttempts + rm.invoked
       /\ stats.failedRetries = rm.before.failedRetries + 1
       /\ stats.successfulRetries = rm.before.successfulRetries
       /\ rm.delays = rm.maxRetries
       /\ rm.thrown \in RetryableIds

C12_Witness ==
  /\ rm.pc = "idle"
  /\ rm.result = "thrown"
  /\ rm.allRetryable
  /\ rm.maxRetries = MaxRetries
  /\ rm.invoked = MaxRetries + 1
  /\ rm.delays = MaxRetries
  /\ rm.before.failedRetries > 0

\* C13: the step in which operation() resolves ends the call with the result,
\* the operation is not called again, and successfulRetries grows by one
\* exactly when the attempt index is above 0
C13_SuccessReturnsAtOnce ==
  [][(rm.pc = "attempting" /\ rm'.result = "returned") =>
       /\ rm'.pc = "idle"
       /\ rm'.invoked = rm.invoked
       /\ rm'.successAt = rm.attempt
       /\ stats'.totalAttempts = stats.totalAttempts
       /\ stats'.failedRetries = stats.failedRetries
       /\ stats'.successfulRetries =
            stats.successfulRetries + (IF rm.attempt > 0 THEN 1 ELSE 0)]_vars

\* a success on the last permitted attempt, after a first-try success that
\* was not counted
C13_Witness ==
  /\ rm.pc = "idle"
  /\ rm.result = "returned"
  /\ rm.successAt = MaxRetries
  /\ rm.invoked = MaxRetries + 1
  /\ stats.successfulRetries = 1
  /\ rm.calls = 2

\* C14: between calls, once successfulRetries + failedRetries is positive,
\* averageAttempts is totalAttempts / (successfulRetries + failedRetries)
C14_AverageIsRatio ==
  (rm.pc = "idle" /\ stats.successfulRetries + stats.failedRetries > 0) =>
    stats.averageAttempts.num * (stats.successfulRetries + stats.failedRetries)
      = stats.totalAttempts * stats.averageAttempts.den

\* the delay of the strategy before retry k, clamped to maxDelay
ClampedBackoff(k, cfg) ==
  Min(CASE cfg.backoffStrategy = "exponential" -> cfg.baseDelay * 2^k
        [] cfg.backoffStrategy = "linear" -> cfg.baseDelay * (k + 1)
        [] cfg.backoffStrategy = "fixed" -> cfg.baseDelay,
      cfg.maxDelay)

\* C15: the delay waited before retry k is the clamped delay of the strategy
\* plus a jitter between 0 and 10% of it, and is never above maxDelay
C15_DelayWithinBounds ==
  rm.pc = "delay" =>
    LET pre == ClampedBackoff(rm.attempt, rm.cfg) IN
    /\ rm.delay >= pre
    /\ 10 * (rm.delay - pre) <= pre
    /\ rm.delay <= rm.cfg.maxDelay

\* an exponential delay with jitter cut back to maxDelay
C15_Witness ==
  /\ rm.pc = "delay"
  /\ rm.cfg.backoffStrategy = "exponential"
  /\ rm.attempt = 1
  /\ BackoffDelay(rm.attempt, rm.cfg) < rm.cfg.maxDelay
  /\ rm.delay > BackoffDelay(rm.attempt, rm.cfg)
  /\ rm.delays = 2


\* ======================== suspensions of executeBatch ====================
\* no callback of the current slice has been created yet
NoneStarted == \A k \in InBatch : tasks[k] = NewTask

\* C16 as stated: under memory pressure forceGC is invoked before any item of
\* the chunk is dispatched and the suspension between the previous chunk's
\* settling and this chunk's dispatch is 2 * delay in total
C16_PressureDelayIsDouble ==
  pc = "gcDelay" =>
    /\ timer.gc
    /\ NoneStarted
    /\ timer.waited = 2 * config.delay

\* C16: under memory pressure forceGC is invoked before any item of the chunk
\* is dispatched and 2 * delay is waited on top of the pacing delay that
\* followed the previous chunk; without pressure there is no forceGC and the
\* suspension before the chunk is the pacing delay alone
C16_PressureDelayIsExtra ==
  /\ pc = "gcDelay" =>
       /\ timer.gc
       /\ timer.sample > config.memoryThreshold
       /\ NoneStarted
       /\ timer.waited = 2 * config.delay + (IF i > 0 THEN config.delay ELSE 0)
  /\ pc # "gcDelay" =>
       /\ ~timer.gc
       /\ timer.waited = (IF pc = "pacing" \/ (pc = "loop" /\ i > 0 /\ i < N)
                            THEN config.delay ELSE 0)

\* pressure before the second chunk: pacing delay plus the doubled delay
C16_Witness ==
  /\ pc = "gcDelay"
  /\ Len(chunks) = 2
  /\ timer.gc
  /\ timer.waited = 3 * config.delay

\* the current chunk holds the last item
FinalChunk == \E j \in 1..Len(batch) : batch[j] = N

\* C17: a pacing delay is begun exactly when a chunk that is not the final one
\* settles, once, and a run that returns has waited one pacing delay fewer
\* than it had chunks
C17_PacingBetweenChunks ==
  /\ [](pc = "done" => timer.pacings = Max(0, Len(chunks) - 1))
  /\ [](pc = "pacing" => ~FinalChunk /\ timer.pacings = Len(chunks))
  /\ [][(pc = "chunk" /\ pc' \notin {"chunk", "thrown"}) =>
          IF FinalChunk
            THEN pc' = "loop" /\ timer'.pacings = timer.pacings
            ELSE pc' = "pacing" /\ timer'.pacings = timer.pacings + 1]_vars
  /\ [][pc # "chunk" => timer'.pacings = timer.pacings \/ pc = "idle"]_vars

\* three chunks, two pacing delays
C17_Witness ==
  /\ pc = "done"
  /\ Len(chunks) = 3
  /\ timer.pacings = 2


\* ======================== adaptiveOptimization properties ================
\* the memory rule fired in the last call
MemoryRuleFired ==
  adapt.called
    /\ MemoryPressure([memoryThreshold |-> config.memoryThreshold], adapt.memoryUsage)

\* C18 as stated: a call in which the memory rule fires leaves maxConcurrency
\* unchanged, whatever processingTime is
C18_MemoryRuleAlone ==
  MemoryRuleFired => config.maxConcurrency = adapt.maxConcurrency

\* C18: the memory rule sets batchSize and delay; independently of it,
\* processingTime > 10000 decrements maxConcurrency (floor 1), also in a call
\* in which the memory rule fired; the good-performance rule never fires
\* together with the memory rule; a call in which no rule fires changes nothing
C18_MemoryThenLatency ==
  adapt.called =>
    LET slow == adapt.processingTime > 10000
        fast == /\ adapt.processingTime < 2000
                /\ adapt.memoryUsage * 2 < config.memoryThreshold IN
    /\ MemoryRuleFired =>
         /\ ~fast
         /\ config.batchSize = Max(1, (adapt.batchSize * 7) \div 10)
         /\ config.delay * 2 = Min(adapt.delay * 3, 2000)
    /\ slow => config.maxConcurrency = Max(1, adapt.maxConcurrency - 1)
    /\ ~slow /\ ~fast => config.maxConcurrency = adapt.maxConcurrency
    /\ ~MemoryRuleFired => config.delay = adapt.delay
    /\ ~MemoryRuleFired /\ ~fast => config.batchSize = adapt.batchSize
    /\ ~MemoryRuleFired /\ fast =>
         /\ config.batchSize = Min(10, adapt.batchSize + 1)
         /\ config.maxConcurrency = Min(5, adapt.maxConcurrency + 1)

\* one call shrank the batch, grew the delay and took a permit away
C18_Witness ==
  /\ MemoryRuleFired
  /\ adapt.processingTime > 10000
  /\ config.maxConcurrency = adapt.maxConcurrency - 1
  /\ config.batchSize < adapt.batchSize
  /\ config.delay > adapt.delay

\* C19: every configuration reached by adaptiveOptimization calls has
\* batchSize >= 1 and maxConcurrency >= 1
C19_FloorsHold ==
  /\ config.batchSize >= 1
  /\ config.maxConcurrency >= 1

\* both floors were needed: the call would have taken batchSize and
\* maxConcurrency from 1 to 0
C19_Witness ==
  /\ MemoryRuleFired
  /\ adapt.processingTime > 10000
  /\ adapt.batchSize = 1
  /\ adapt.maxConcurrency = 1
  /\ config.batchSize = 1
  /\ config.maxConcurrency = 1


\* ======================== Semaphore order ========================
\* the waiter whose acquire() was called first: the callbacks of a chunk call
\* acquire() in item order
LongestWaiting == CHOOSE k \in Waiting : \A j \in Waiting : k <= j

\* this step is the return of a callback, whose finally block calls release()
Releases == \E k \in Tasks : ~Settled(k) /\ tasks'[k].st \in {"fulfilled", "rejected"}

\* C20: a release with callers waiting resumes the one that has waited
\* longest, keeps every other waiter waiting and leaves the permit counter
\* as it is; the counter grows, by one, only in a release with nobody waiting
C20_WaitersServedInOrder ==
  [][/\ (Releases /\ Waiting # {}) =>
          /\ tasks'[LongestWaiting].st = "acquired"
          /\ \A j \in Waiting \ {LongestWaiting} : tasks'[j].st = "waiting"
          /\ sem'.waitQueue = Tail(sem.waitQueue)
          /\ sem'.permits = sem.permits
     /\ (Releases /\ Waiting = {}) => sem'.permits = sem.permits + 1
     /\ (pc = "chunk" /\ sem'.permits # sem.permits) => Releases /\ Waiting = {}]_vars

\* with one permit and three callers, the second was resumed before the third
C20_Witness ==
  /\ pc = "chunk"
  /\ config.maxConcurrency = 1
  /\ Len(batch) = 3
  /\ Settled(batch[1])
  /\ tasks[batch[2]].st \in {"acquired", "running"}
  /\ tasks[batch[3]].st = "waiting"
  /\ sem.permits = 0


\* ======================== permits ========================
\* C21: a callback has released once when it has returned or thrown and not
\* before; permits are neither lost nor made, so a chunk whose callbacks are
\* all over leaves maxConcurrency free permits and an empty queue; and while
\* a caller waits, a holder exists whose release will resume a waiter
C21_PermitsReturned ==
  /\ \A k \in Tasks : tasks[k].releases = (IF Settled(k) THEN 1 ELSE 0)
  /\ sem.permits + Cardinality(Holders) = sem.capacity
  /\ (batch # <<>> /\ \A k \in InBatch : Settled(k)) =>
       /\ sem.permits = config.maxConcurrency
       /\ sem.waitQueue = <<>>
  /\ Waiting = {sem.waitQueue[j] : j \in 1..Len(sem.waitQueue)}
  /\ Waiting # {} => Holders # {} /\ sem.permits = 0

\* a chunk in which a caller had to wait and a callback threw is over
C21_Witness ==
  /\ pc = "thrown"
  /\ Len(batch) > config.maxConcurrency
  /\ \A k \in InBatch : Settled(k)
  /\ \E k \in InBatch : tasks[k].st = "rejected" /\ tasks[k].calls > 0
  /\ \E k \in InBatch : tasks[k].st = "fulfilled" /\ tasks[k].out.success
  /\ \E k \in InBatch : FailedItem(k) /\ tasks[k].calls = config.retryAttempts
  /\ sem.permits = config.maxConcurrency


\* ======================== termination ========================
\* C22: a run that has started returns a BatchResult or throws
C22_RunTerminates == (pc = "loop") ~> (pc \in {"done", "thrown"})

\* a result was returned although a processor call that timed out never ended
C22_Witness ==
  /\ pc = "done"
  /\ ret.kind = "result"
  /\ orphans > 0
  /\ Len(chunks) > 1
  /\ \E k \in Tasks : tasks[k].fails = config.retryAttempts /\ tasks[k].backoffs > 0


\* ======================== memory statistics ========================
\* C23 as stated: the result's before is the heap use at the start of the
\* invocation, and the peak of an invocation that took no sample of its own
\* (no items) is not above what the invocation saw
C23_OwnMonitor ==
  ret.kind = "result" =>
    /\ ret.memoryUsage.before = run.startHeap
    /\ Len(items) = 0 =>
         ret.memoryUsage.peak <= Max(run.startHeap, ret.memoryUsage.after)

\* C27 as stated: in every BatchResult peak >= before and peak >= after
C27_PeakIsLargest ==
  ret.kind = "result" =>
    /\ ret.memoryUsage.peak >= ret.memoryUsage.before
    /\ ret.memoryUsage.peak >= ret.memoryUsage.after

\* ======================== two invocations in flight ========================
\* the BatchResult of invocation o holds each of its own items once, as its
\* processor's value in success or as the item in failed, and nothing else
OwnOutcome(o) ==
  o.ret.kind = "result" =>
    /\ o.ret.totalProcessed = Len(o.items)
    /\ Len(o.ret.success) + Len(o.ret.failed) = Len(o.items)
    /\ \A j \in 1..Len(o.ret.success) :
         \E k \in 1..Len(o.items) : o.ret.success[j] = ProcValue(o.items[k])
    /\ \A j \in 1..Len(o.ret.failed) :
         \E k \in 1..Len(o.items) : o.ret.failed[j].item = o.items[k]
    /\ \A k \in 1..Len(o.items) :
         \/ \E j \in 1..Len(o.ret.success) : o.ret.success[j] = ProcValue(o.items[k])
         \/ \E j \in 1..Len(o.ret.failed) : o.ret.failed[j].item = o.items[k]

\* C28: whatever the interleaving, each of two invocations on one
\* BatchOptimizer returns the outcomes of its own items only
C28_RunsDoNotMix == OwnOutcome(Invocation) /\ OwnOutcome(other)

\* the invocation called first returned after the second one had run to its
\* end in between; both had successes and failures
C28_Witness ==
  /\ run.id = 0
  /\ ret.kind = "result"
  /\ other.ret.kind = "result"
  /\ Len(items) = MaxRunItems
  /\ Len(other.items) = MaxRunItems
  /\ Len(chunks) = 2
  /\ Len(ret.success) = 1
  /\ Len(other.ret.success) = 1


\* ======================== tuning during a run ========================
\* the chunks that position k of the input was sliced into
ChunksWith(k) == {c \in 1..Len(chunks) : \E j \in 1..Len(chunks[c]) : chunks[c][j] = k}

\* C24 as stated: also when adaptiveOptimization is called while the run is
\* suspended, a returned result has every input item in exactly one chunk and
\* success.length + failed.length = totalProcessed
C24_ConfigFixedForRun ==
  ret.kind = "result" =>
    /\ \A k \in 1..N : Cardinality(ChunksWith(k)) = 1
    /\ Len(ret.success) + Len(ret.failed) = ret.totalProcessed


\* ======================== order of the aggregated lists ====================
\* positions a < b of a list of processor values, or of failure records, hold
\* items in input order (ItemVal and ProcValue grow with the position)
InInputOrder(success, failed) ==
  /\ \A a, b \in 1..Len(success) : a < b => success[a] < success[b]
  /\ \A a, b \in 1..Len(failed) : a < b => failed[a].item < failed[b].item

\* C25: results and failures, and the lists of the BatchResult, are in input
\* order at all times, whatever the order in which the callbacks of a chunk end
C25_InputOrderKept ==
  /\ InInputOrder(results, failures)
  /\ ret.kind = "result" => InInputOrder(ret.success, ret.failed)

\* the second item of a chunk ended before the first, both succeeded, and
\* the result lists them in input order, after a failure of the third
C25_Witness ==
  /\ ret.kind = "result"
  /\ Len(ret.success) = 2
  /\ Len(ret.failed) = 1
  /\ \E c \in 1..Len(chunks) :
       /\ Len(chunks[c]) >= 2
       /\ tasks[chunks[c][2]].overtook
       /\ InSuccess(ProcValue(items[chunks[c][1]]))
       /\ InSuccess(ProcValue(items[chunks[c][2]]))


\* ======================== direction of the tuning rules ====================
\* C26 as stated: the good-performance rule never decreases maxConcurrency or
\* batchSize, and the memory rule never decreases delay nor increases
\* batchSize, from any configuration
C26_NeverAgainstDirection ==
  adapt.called =>
    /\ (adapt.processingTime < 2000 /\ adapt.memoryUsage * 2 < config.memoryThreshold) =>
         /\ config.maxConcurrency >= adapt.maxConcurrency
         /\ config.batchSize >= adapt.batchSize
    /\ MemoryRuleFired =>
         /\ config.delay >= adapt.delay
         /\ config.batchSize <= adapt.batchSize

\* ======================== MemoryCache size ========================
\* C29 as stated: whatever set, get, has, delete and cleanup calls are made
\* at whatever clock values, the Map never holds more than maxSize entries
C29_NeverOverMaxSize == Len(mcache.cache) <= mcache.config.maxSize

\* ======================== PerformanceOptimizer concurrency ================
\* the callers whose operation is running
RunningOperations == {c \in PerfCallers : perf.callers[c] = "running"}

\* C30: in every interleaving of the callers of optimizeOperation, at most
\* maxConcurrentOperations operations run at the same time, and
\* activeOperations counts exactly them, also after operations threw
C30_ActiveBounded ==
  /\ Cardinality(RunningOperations) <= perf.config.maxConcurrentOperations
  /\ perf.activeOperations = Cardinality(RunningOperations)

\* the limit is reached while a caller waits, after an operation threw
C30_Witness ==
  /\ perf.activeOperations = perf.config.maxConcurrentOperations
  /\ \E c \in PerfCallers : perf.callers[c] = "waiting"
  /\ \E c \in PerfCallers : perf.callers[c] = "thrown"

====
